---- MODULE Spec2Model ----
(***************************************************************************)
(* Model of the markdown parser of wimd (src/src/ast.rs).                  *)
(*                                                                         *)
(* The recursive-descent parser ParsingState is modelled as a state        *)
(* machine with an explicit call stack.  Every call of consume() draws the *)
(* next event of the tokenizer's stream (or the end of the stream), so the *)
(* reachable states are the states of the parser on every event stream of  *)
(* a profile.  A function returns by popping its frame and leaving its     *)
(* value in `ret`; the caller's continuation is the action that takes it.  *)
(* The `?` operator has no handler anywhere in ast.rs: an Err unwinds the  *)
(* whole stack up to parse(), which is modelled as one step (Fail).        *)
(* A panic (assert!, expect, panic!) aborts the run (Abort).               *)
(*                                                                         *)
(* The keyword matcher of src/src/document.rs (keyword_search_regex and    *)
(* the searches of the regex it builds), the indexer IndexedDocument::from *)
(* and the error report of parse() are modelled beside it.                 *)
(*                                                                         *)
(* Strings are sequences of characters, each a one-character string; the   *)
(* texts parsed and searched are ASCII, so byte offsets are character      *)
(* offsets.  A keyword may hold the one non-ASCII character Kelvin, whose  *)
(* encoding has three bytes.  Offsets and indices are 0-based as in the    *)
(* source.  Option<T> is <<>> (None) or <<x>> (Some(x)).                   *)
(***************************************************************************)
EXTENDS Integers, Sequences, FiniteSets, TLC

(***************************************************************************)
(* Bounds: the longest event stream of each input profile.                 *)
(***************************************************************************)
MaxEvents == 5
MaxInlineEvents == 7
MaxKeywordEvents == 11
MaxSectionEvents == 10
MaxListEvents == 12
MaxDeepEvents == 19
\* the longest source text of the error report
MaxTextLen == 3
\* the matcher: the longest keyword, the largest vocabulary, the longest text searched
MaxKeywordLen == 2
MaxVocabulary == 2
MaxHaystackLen == 2

\* Header levels of CommonMark, assert!((1..=6).contains(&new_level)).
MaxHeaderLevel == 6

(***************************************************************************)
(* Events of pulldown_cmark (Event, Tag), as uniform records:              *)
(* k the kind, n the header level or the list start index flag, s the text *)
(***************************************************************************)
Ev(k, n, s) == [k |-> k, n |-> n, s |-> s]
Text(s) == Ev("Text", 0, s)
SoftBreak == Ev("SoftBreak", 0, <<>>)
HardBreak == Ev("HardBreak", 0, <<>>)
StartHeader(n) == Ev("StartHeader", n, <<>>)
EndHeader(n) == Ev("EndHeader", n, <<>>)
StartParagraph == Ev("StartParagraph", 0, <<>>)
EndParagraph == Ev("EndParagraph", 0, <<>>)
StartRule == Ev("StartRule", 0, <<>>)
EndRule == Ev("EndRule", 0, <<>>)
\* Tag::List(Option<usize>): n = 1 when a start index is present (ordered list)
StartList(n) == Ev("StartList", n, <<>>)
EndList(n) == Ev("EndList", n, <<>>)
StartItem == Ev("StartItem", 0, <<>>)
EndItem == Ev("EndItem", 0, <<>>)
StartEmphasis == Ev("StartEmphasis", 0, <<>>)
EndEmphasis == Ev("EndEmphasis", 0, <<>>)
StartStrong == Ev("StartStrong", 0, <<>>)
EndStrong == Ev("EndStrong", 0, <<>>)
\* any event kind the parser has no arm for (Html, Code, Start(BlockQuote), ...)
Unsupported == Ev("Unsupported", 0, <<>>)

StartKinds == {"StartHeader", "StartParagraph", "StartRule", "StartList", "StartItem",
               "StartEmphasis", "StartStrong"}
EndKinds == {"EndHeader", "EndParagraph", "EndRule", "EndList", "EndItem",
             "EndEmphasis", "EndStrong"}
StartOf(k) ==
    CASE k = "EndHeader" -> "StartHeader"
      [] k = "EndParagraph" -> "StartParagraph"
      [] k = "EndRule" -> "StartRule"
      [] k = "EndList" -> "StartList"
      [] k = "EndItem" -> "StartItem"
      [] k = "EndEmphasis" -> "StartEmphasis"
      [] k = "EndStrong" -> "StartStrong"
\* the level of the last header start of s (0 when there is none)
RECURSIVE LastHeaderLevel(_)
LastHeaderLevel(s) ==
    IF s = <<>> THEN 0
    ELSE IF s[Len(s)].k = "StartHeader" THEN s[Len(s)].n
    ELSE LastHeaderLevel(SubSeq(s, 1, Len(s) - 1))

Texts == {<<"a">>, <<"A">>, <<"b">>}

InlineMarks == {StartEmphasis, EndEmphasis, StartStrong, EndStrong, SoftBreak, HardBreak}
BlockMarks == {StartParagraph, EndParagraph, StartRule, EndRule}
ListMarks == {StartList(0), StartList(1), EndList(0), StartItem, EndItem}

(***************************************************************************)
(* Input profiles: an alphabet of events and the longest stream.  The      *)
(* general profile has every event kind; the others restrict the alphabet  *)
(* so that longer streams (two keywords in one unit, nested lists, six     *)
(* header levels) stay within reach.  A profile with a script is that one  *)
(* stream: the tokenizer yields the script, then the end of the stream.    *)
(***************************************************************************)
GeneralProfile ==
    [alphabet |-> {Text(s) : s \in Texts} \cup InlineMarks \cup BlockMarks \cup ListMarks
                  \cup {StartHeader(1), EndHeader(1), StartHeader(2), EndHeader(2),
                        StartHeader(3), Unsupported},
     nested |-> FALSE,
     script |-> <<>>,
     max |-> MaxEvents]
InlineProfile ==
    [alphabet |-> {Text(<<"a">>), Text(<<"b", "b">>)}
                  \cup {StartEmphasis, EndEmphasis, StartStrong, EndStrong, SoftBreak,
                        StartParagraph, EndParagraph},
     nested |-> TRUE,
     script |-> <<>>,
     max |-> MaxInlineEvents]
KeywordProfile ==
    [alphabet |-> {Text(s) : s \in Texts}
                  \cup {StartEmphasis, EndEmphasis, StartParagraph, EndParagraph},
     nested |-> TRUE,
     script |-> <<>>,
     max |-> MaxKeywordEvents]
SectionProfile ==
    [alphabet |-> {Text(<<"a">>), StartParagraph, EndParagraph, SoftBreak, Unsupported,
                   StartHeader(1), EndHeader(1), StartHeader(2), EndHeader(2),
                   StartHeader(3), EndHeader(3)},
     nested |-> TRUE,
     script |-> <<>>,
     max |-> MaxSectionEvents]
ListProfile ==
    [alphabet |-> {Text(<<"a">>)} \cup ListMarks,
     nested |-> TRUE,
     script |-> <<>>,
     max |-> MaxListEvents]
DeepProfile ==
    [alphabet |-> {Text(<<"a">>)}
                  \cup {StartHeader(n) : n \in 1..(MaxHeaderLevel + 1)}
                  \cup {EndHeader(n) : n \in 1..(MaxHeaderLevel + 1)},
     nested |-> TRUE,
     script |-> <<>>,
     max |-> MaxDeepEvents]
\* The stream of the document
\*     # Title
\*     Hello *world*.
\*     ## Sub
\*     **Bold** world.
ScenarioScript ==
    <<StartHeader(1), Text(<<"T", "i", "t", "l", "e">>), EndHeader(1),
      StartParagraph, Text(<<"H", "e", "l", "l", "o", " ">>),
      StartEmphasis, Text(<<"w", "o", "r", "l", "d">>), EndEmphasis, Text(<<".">>),
      EndParagraph,
      StartHeader(2), Text(<<"S", "u", "b">>), EndHeader(2),
      StartParagraph, StartStrong, Text(<<"B", "o", "l", "d">>), EndStrong,
      Text(<<" ", "w", "o", "r", "l", "d", ".">>), EndParagraph>>
ScenarioProfile ==
    [alphabet |-> {ScenarioScript[i] : i \in 1..Len(ScenarioScript)},
     nested |-> TRUE,
     script |-> ScenarioScript,
     max |-> Len(ScenarioScript)]
\* The streams of two documents with a keyword and a list, the list among the
\* blocks of the document and among those of a section:
\*     - a *b*
\* and
\*     *b*
\*
\*     # T
\*     - a
TopListScript ==
    <<StartList(0), StartItem, Text(<<"a", " ">>),
      StartEmphasis, Text(<<"b">>), EndEmphasis, EndItem, EndList(0)>>
SectionListScript ==
    <<StartParagraph, StartEmphasis, Text(<<"b">>), EndEmphasis, EndParagraph,
      StartHeader(1), Text(<<"T">>), EndHeader(1),
      StartList(0), StartItem, Text(<<"a">>), EndItem, EndList(0)>>
TopListProfile ==
    [alphabet |-> {TopListScript[i] : i \in 1..Len(TopListScript)},
     nested |-> TRUE,
     script |-> TopListScript,
     max |-> Len(TopListScript)]
SectionListProfile ==
    [alphabet |-> {SectionListScript[i] : i \in 1..Len(SectionListScript)},
     nested |-> TRUE,
     script |-> SectionListScript,
     max |-> Len(SectionListScript)]
\* no event stream: the parser is not running
NoInput == [alphabet |-> {}, nested |-> FALSE, script |-> <<>>, max |-> 0]
Profiles ==
    {GeneralProfile, InlineProfile, KeywordProfile, SectionProfile, ListProfile, DeepProfile,
     ScenarioProfile, TopListProfile, SectionListProfile}

VARIABLES
    input,                  \* the profile of the event stream (fixed by Init)
    stream,                 \* ParsingState.iter: the events consumed so far
    ended,                  \* ParsingState.iter has returned None
    keywords,               \* ParsingState.keywords: IndexSet<UniCase<String>>
    inline_element_count,   \* ParsingState.inline_element_count
    stack,                  \* call stack of the recursive functions, top last
    ret,                    \* value being returned to the top frame, or <<>>
    result,                 \* <<>> while parsing, else the outcome of the run
    text,                   \* parse(text): the source text, as far as its lines matter
    report,                 \* the Err(String) parse() returns, or <<>>
    regex,                  \* the value of keyword_search_regex(&keywords), once called
    haystack,               \* the text searched with the regex
    matches,                \* the matches find_iter has yielded so far
    last_end,               \* find_iter: where the next search starts, <<>> once exhausted
    indexed                 \* the outcome of IndexedDocument::from, or <<>>

\* the state of the parser, of the error report, of the matcher and of the indexer
parser_vars == <<input, stream, ended, keywords, inline_element_count, stack, ret, result>>
report_vars == <<text, report>>
matcher_vars == <<regex, haystack, matches, last_end>>
vars == <<parser_vars, report_vars, matcher_vars, indexed>>
\* what no function of ParsingState touches
outside == <<report_vars, matcher_vars, indexed>>

(***************************************************************************)
(* Option and stack helpers                                                *)
(***************************************************************************)
None == <<>>
Some(x) == <<x>>
IsSome(o) == o # <<>>
Get(o) == o[1]

Top == stack[Len(stack)]
Popped == SubSeq(stack, 1, Len(stack) - 1)
Running == result = None
\* the top frame is in function fn and no return value is pending
At(fn) == Running /\ stack # <<>> /\ ret = None /\ Top.fn = fn
\* function `callee` has just returned to the top frame, which is in `fn`
Returned(fn, callee) ==
    Running /\ stack # <<>> /\ ret # None /\ Top.fn = fn /\ Get(ret).from = callee

(***************************************************************************)
(* consume(): the next (event, offset) of the iterator, or None.  The      *)
(* offset of an event is modelled by its ordinal in the stream, so that an *)
(* offset identifies its event.                                            *)
(***************************************************************************)
\* The tags open after the events s of a properly nested stream, innermost last.
RECURSIVE OpenTags(_)
OpenTags(s) ==
    IF s = <<>> THEN <<>>
    ELSE LET open == OpenTags(SubSeq(s, 1, Len(s) - 1))
             e == s[Len(s)]
         IN  IF e.k \in StartKinds THEN Append(open, e.k)
             ELSE IF e.k \in EndKinds /\ open # <<>> THEN SubSeq(open, 1, Len(open) - 1)
             ELSE open
\* In a nested profile the tokenizer keeps its contract: an end tag closes the
\* innermost open tag (a header with its own level), text is inside a tag, and
\* adjacent text comes as one Text event.
WellNested(e, open) ==
    /\ e.k \in EndKinds =>
        /\ open # <<>>
        /\ open[Len(open)] = StartOf(e.k)
        /\ e.k = "EndHeader" => e.n = LastHeaderLevel(stream)
    /\ e.k = "Text" =>
        /\ open # <<>>
        /\ stream[Len(stream)].k # "Text"
Consumable ==
    IF input.script # <<>>
    THEN IF ~ended /\ Len(stream) < Len(input.script)
         THEN {Some([e |-> input.script[Len(stream) + 1], o |-> Len(stream)])}
         ELSE {None}
    ELSE
    {None} \cup
    (IF ~ended /\ Len(stream) < input.max
     THEN LET open == IF input.nested THEN OpenTags(stream) ELSE <<>>
          IN  {Some([e |-> e, o |-> Len(stream)]) :
                  e \in {x \in input.alphabet : input.nested => WellNested(x, open)}}
     ELSE {})
\* Mutant: the event is looked at and left in the iterator.
consume_Peek(c) ==
    /\ c \in Consumable
    /\ stream' = stream
    /\ ended' = (ended \/ c = None)
    /\ UNCHANGED <<input, outside>>
consume(c) ==
    /\ c \in Consumable
    /\ stream' = (IF IsSome(c) THEN Append(stream, Get(c).e) ELSE stream)
    /\ ended' = (ended \/ c = None)
    /\ UNCHANGED <<input, outside>>

Kind(c) == IF IsSome(c) THEN Get(c).e.k ELSE "None"

(***************************************************************************)
(* Outcomes of the run                                                     *)
(***************************************************************************)
Outcome(kind, doc, msg, ev, o, a, b) ==
    [kind |-> kind, doc |-> doc, msg |-> msg, ev |-> ev, o |-> o, a |-> a, b |-> b]
\* parse_document(mut self) consumes the ParsingState: once the run has failed
\* nothing of it is left, and parse() drops the keyword set.
Dropped ==
    /\ stream' = <<>>
    /\ ended' = FALSE
    /\ keywords' = <<>>
    /\ inline_element_count' = 0
    /\ stack' = <<>>
    /\ ret' = None
    /\ UNCHANGED <<input, outside>>
\* Err((format!(msg, a, b, e), o)) propagated by `?` to parse()
Fail(msg, c, a, b) ==
    /\ result' = Some(Outcome("Err", None, msg, Some(Get(c).e), Get(c).o, a, b))
    /\ Dropped
\* panic!, assert!, expect
Abort(msg) ==
    /\ result' = Some(Outcome("Panic", None, msg, None, 0, 0, 0))
    /\ Dropped
\* no event is consumed and the parsing state is left alone
Kept == UNCHANGED <<input, stream, ended, keywords, inline_element_count, outside>>
\* an event is consumed, the keyword set and the counter are left alone
Consumed(c) == consume(c) /\ UNCHANGED <<keywords, inline_element_count>>
\* a function returns value v and the unconsumed event next to its caller
Return(fn, v, next) ==
    /\ stack' = Popped
    /\ ret' = Some([from |-> fn, v |-> v, next |-> next])
    /\ UNCHANGED result

(***************************************************************************)
(* Frames: the locals of one activation of each function                   *)
(***************************************************************************)
DocumentFrame == [fn |-> "parse_document"]
SectionFrame(level) == [fn |-> "parse_section_of_level", level |-> level, title |-> None]
ContentFrame(level) ==
    [fn |-> "parse_section_content_at_level", level |-> level, pc |-> "blocks",
     blocks |-> <<>>, sub_sections |-> <<>>, next |-> None]
BlockFrame == [fn |-> "try_parse_block", pc |-> "start"]
ParagraphFrame == [fn |-> "parse_paragraph"]
\* Mutant: the list forgets the flag of its start marker.
ListFrame_Unordered(ordered) == [fn |-> "parse_list", ordered |-> FALSE, items |-> <<>>]
ListFrame(ordered) == [fn |-> "parse_list", ordered |-> ordered, items |-> <<>>]
ItemFrame == [fn |-> "parse_list_item", pc |-> "text", text_content |-> <<>>]
SequenceFrame == [fn |-> "parse_inline_sequence", inline_elements |-> <<>>]
InlineFrame ==
    [fn |-> "parse_inline", string |-> None, tags |-> <<>>,
     strong_start |-> None, emphasis_start |-> None]

\* the top frame goes on as f
Continue(f) ==
    /\ stack' = [stack EXCEPT ![Len(stack)] = f]
    /\ ret' = None
    /\ UNCHANGED result
\* the top frame goes on as f and calls: `frames` are pushed, down to the next consume()
Call(f, frames) ==
    /\ stack' = Popped \o <<f>> \o frames
    /\ ret' = None
    /\ UNCHANGED result

(***************************************************************************)
(* Values of the tree                                                      *)
(***************************************************************************)
InlineElement(index, string, tags) == [index |-> index, string |-> string, tags |-> tags]
Tagged(start, end, tag, k) == [start |-> start, end |-> end, tag |-> tag, k |-> k]
Paragraph(inlines) == [b |-> "Paragraph", inlines |-> inlines, list |-> None]
Rule == [b |-> "Rule", inlines |-> <<>>, list |-> None]
ListBlock(list) == [b |-> "List", inlines |-> <<>>, list |-> Some(list)]
List(ordered, items) == [ordered |-> ordered, items |-> items]
ListItem(text_content, sub_list) == [text_content |-> text_content, sub_list |-> sub_list]
SectionContent(blocks, sub_sections) == [blocks |-> blocks, sub_sections |-> sub_sections]
Section(title, content) == [title |-> title, content |-> content]

(***************************************************************************)
(* KeywordSet = IndexSet<UniCase<String>>: insertion-ordered, compared     *)
(* ignoring case.  insert_full returns the index of the equal entry, or    *)
(* appends and returns the new index.                                      *)
(***************************************************************************)
UpperCase == <<"A", "B", "C", "D", "E", "F", "G", "H", "I", "J", "K", "L", "M",
               "N", "O", "P", "Q", "R", "S", "T", "U", "V", "W", "X", "Y", "Z">>
LowerCase == <<"a", "b", "c", "d", "e", "f", "g", "h", "i", "j", "k", "l", "m",
               "n", "o", "p", "q", "r", "s", "t", "u", "v", "w", "x", "y", "z">>
\* U+212A KELVIN SIGN: a letter of three bytes whose case folding is "k"
Kelvin == "KELVIN SIGN"
Lower(c) ==
    IF \E i \in 1..Len(UpperCase) : UpperCase[i] = c
    THEN LowerCase[CHOOSE i \in 1..Len(UpperCase) : UpperCase[i] = c]
    ELSE IF c = Kelvin THEN "k"
    ELSE c
\* str::len: the length in bytes
RECURSIVE len(_)
len(str) ==
    IF str = <<>> THEN 0
    ELSE (IF Head(str) = Kelvin THEN 3 ELSE 1) + len(Tail(str))
ToLower(s) == [i \in 1..Len(s) |-> Lower(s[i])]
UniCaseEq(s, t) == ToLower(s) = ToLower(t)
\* Mutant: the lookup compares the strings as they are.
get_index_of_CaseSensitive(set, s) ==
    IF \E i \in 1..Len(set) : set[i] = s
    THEN Some((CHOOSE i \in 1..Len(set) : set[i] = s) - 1)
    ELSE None
get_index_of(set, s) ==
    IF \E i \in 1..Len(set) : UniCaseEq(set[i], s)
    THEN Some((CHOOSE i \in 1..Len(set) : UniCaseEq(set[i], s)) - 1)
    ELSE None
insert_full(set, s) ==
    LET found == get_index_of(set, s)
    IN  IF IsSome(found)
        THEN [index |-> Get(found), set |-> set]
        ELSE [index |-> Len(set), set |-> Append(set, s)]

(***************************************************************************)
(* parse_inline                                                            *)
(***************************************************************************)
\* Mutant: the open offset is taken one past the end of the string.
opt_len_OnePast(s) == IF IsSome(s) THEN Len(Get(s)) + 1 ELSE 0
\* Mutant: the open offset is the start of the unit.
opt_len_Zero(s) == 0
opt_len(s) == IF IsSome(s) THEN Len(Get(s)) ELSE 0
\* Mutant: the text replaces what the unit holds.
push_str_Overwrite(string, s) == Some(s)
push_str(string, s) == IF IsSome(string) THEN Some(Get(string) \o s) ELSE Some(s)
\* string[start..end]
Slice(s, start, end) == SubSeq(s, start + 1, end)
InlineKinds == {"Text", "StartEmphasis", "EndEmphasis", "StartStrong", "EndStrong"}

InlineText ==
    /\ At("parse_inline")
    /\ \E c \in Consumable :
        /\ Kind(c) = "Text"
        /\ Consumed(c)
        /\ Continue([Top EXCEPT !.string = push_str(Top.string, Get(c).e.s)])

InlineStartEmphasis ==
    /\ At("parse_inline")
    /\ \E c \in Consumable :
        /\ Kind(c) = "StartEmphasis"
        /\ IF IsSome(Top.emphasis_start)
           THEN Abort("assertion failed: emphasis_start == None")
           ELSE /\ Consumed(c)
                /\ Continue([Top EXCEPT !.emphasis_start = Some(opt_len(Top.string))])

InlineEndEmphasis ==
    /\ At("parse_inline")
    /\ \E c \in Consumable :
        /\ Kind(c) = "EndEmphasis"
        /\ IF Top.emphasis_start = None
           THEN Fail("Multiline emphasis not supported", c, 0, 0)
           ELSE IF Top.string = None
           THEN Abort("Empty emphasis block")
           ELSE LET start == Get(Top.emphasis_start)
                    end == Len(Get(Top.string))
                    ins == insert_full(keywords, Slice(Get(Top.string), start, end))
                IN  /\ consume(c)
                    /\ keywords' = ins.set
                    /\ UNCHANGED inline_element_count
                    /\ Continue([Top EXCEPT
                           !.emphasis_start = None,
                           !.tags = Append(@, Tagged(start, end, "ExplicitKeyword", ins.index))])

InlineStartStrong ==
    /\ At("parse_inline")
    /\ \E c \in Consumable :
        /\ Kind(c) = "StartStrong"
        /\ IF IsSome(Top.strong_start)
           THEN Abort("assertion failed: strong_start == None")
           ELSE /\ Consumed(c)
                /\ Continue([Top EXCEPT !.strong_start = Some(opt_len(Top.string))])

\* Mutant: an end without a pending start closes a range from the start of the unit.
InlineEndStrong_ClosesFromZero ==
    /\ At("parse_inline")
    /\ \E c \in Consumable :
        /\ Kind(c) = "EndStrong"
        /\ IF Top.string = None
           THEN Abort("Empty strong block")
           ELSE LET start == IF IsSome(Top.strong_start) THEN Get(Top.strong_start) ELSE 0
                    end == Len(Get(Top.string))
                IN  /\ Consumed(c)
                    /\ Continue([Top EXCEPT
                           !.strong_start = None,
                           !.tags = Append(@, Tagged(start, end, "Highlight", 0))])

InlineEndStrong ==
    /\ At("parse_inline")
    /\ \E c \in Consumable :
        /\ Kind(c) = "EndStrong"
        /\ IF Top.strong_start = None
           THEN Fail("Multiline strong not supported", c, 0, 0)
           ELSE IF Top.string = None
           THEN Abort("Empty strong block")
           ELSE LET start == Get(Top.strong_start)
                    end == Len(Get(Top.string))
                IN  /\ Consumed(c)
                    /\ Continue([Top EXCEPT
                           !.strong_start = None,
                           !.tags = Append(@, Tagged(start, end, "Highlight", 0))])

\* Mutant: the counter moves on for a call that saw no text.
InlineReturn_CountsEmpty ==
    /\ At("parse_inline")
    /\ \E c \in Consumable :
        /\ Kind(c) \notin InlineKinds
        /\ consume(c)
        /\ UNCHANGED keywords
        /\ inline_element_count' = inline_element_count + 1
        /\ IF IsSome(Top.string)
           THEN Return("parse_inline",
                       Some(InlineElement(inline_element_count, Get(Top.string), Top.tags)),
                       c)
           ELSE Return("parse_inline", None, c)

\* `next => break next`, then the unit is assembled (or none, if no text was seen)
InlineReturn ==
    /\ At("parse_inline")
    /\ \E c \in Consumable :
        /\ Kind(c) \notin InlineKinds
        /\ consume(c)
        /\ UNCHANGED keywords
        /\ IF IsSome(Top.string)
           THEN /\ inline_element_count' = inline_element_count + 1
                /\ Return("parse_inline",
                          Some(InlineElement(inline_element_count, Get(Top.string), Top.tags)),
                          c)
           ELSE /\ UNCHANGED inline_element_count
                /\ Return("parse_inline", None, c)

(***************************************************************************)
(* parse_inline_sequence                                                   *)
(***************************************************************************)
Pushed(seq, opt) == IF IsSome(opt) THEN Append(seq, Get(opt)) ELSE seq

\* a soft or hard break: the loop goes on with the next unit
InlineSequenceBreak ==
    /\ Returned("parse_inline_sequence", "parse_inline")
    /\ Kind(Get(ret).next) \in {"SoftBreak", "HardBreak"}
    /\ Call([Top EXCEPT !.inline_elements = Pushed(@, Get(ret).v)], <<InlineFrame>>)
    /\ Kept

InlineSequenceReturn ==
    /\ Returned("parse_inline_sequence", "parse_inline")
    /\ Kind(Get(ret).next) \notin {"SoftBreak", "HardBreak"}
    /\ Return("parse_inline_sequence",
              Pushed(Top.inline_elements, Get(ret).v), Get(ret).next)
    /\ Kept

(***************************************************************************)
(* parse_paragraph                                                         *)
(***************************************************************************)
\* Mutant: a paragraph without unit is returned like any other.
ParagraphEnd_AllowsEmpty ==
    /\ Returned("parse_paragraph", "parse_inline_sequence")
    /\ LET r == Get(ret)
       IN  IF r.next = None
           THEN Abort("Unclosed paragraph")
           ELSE IF Kind(r.next) = "EndParagraph"
           THEN Return("parse_paragraph", r.v, None) /\ Kept
           ELSE Fail("Parsing paragraph: unexpected", r.next, 0, 0)

\* Mutant: the end of the stream closes the paragraph.
ParagraphEnd_ClosedByEnd ==
    /\ Returned("parse_paragraph", "parse_inline_sequence")
    /\ LET r == Get(ret)
       IN  IF r.next = None \/ Kind(r.next) = "EndParagraph"
           THEN IF Len(r.v) > 0
                THEN Return("parse_paragraph", r.v, None) /\ Kept
                ELSE Abort("assertion failed: inline_sequence.len() > 0")
           ELSE Fail("Parsing paragraph: unexpected", r.next, 0, 0)

ParagraphEnd ==
    /\ Returned("parse_paragraph", "parse_inline_sequence")
    /\ LET r == Get(ret)
       IN  IF r.next = None
           THEN Abort("Unclosed paragraph")
           ELSE IF Kind(r.next) = "EndParagraph"
           THEN IF Len(r.v) > 0
                THEN Return("parse_paragraph", r.v, None) /\ Kept
                ELSE Abort("assertion failed: inline_sequence.len() > 0")
           ELSE Fail("Parsing paragraph: unexpected", r.next, 0, 0)

(***************************************************************************)
(* parse_list, parse_list_item                                             *)
(***************************************************************************)
ListNext ==
    /\ At("parse_list")
    /\ \E c \in Consumable :
        IF c = None
        THEN Abort("Unclosed list")
        ELSE IF Kind(c) = "StartItem"
        THEN Consumed(c) /\ Call(Top, <<ItemFrame, SequenceFrame, InlineFrame>>)
        ELSE IF Kind(c) = "EndList"
        THEN Consumed(c) /\ Return("parse_list", List(Top.ordered, Top.items), None)
        ELSE Abort("Expected list items")

ListItemPushed ==
    /\ Returned("parse_list", "parse_list_item")
    /\ Continue([Top EXCEPT !.items = Append(@, Get(ret).v)])
    /\ Kept

\* Mutant: the text of an item is not checked.
ListItemText_AllowsEmpty ==
    /\ Returned("parse_list_item", "parse_inline_sequence")
    /\ LET r == Get(ret)
       IN  IF r.next = None
           THEN Abort("Unclosed list item")
           ELSE IF Kind(r.next) = "EndItem"
           THEN Return("parse_list_item", ListItem(r.v, None), None) /\ Kept
           ELSE IF Kind(r.next) = "StartList"
           THEN /\ Call([Top EXCEPT !.pc = "sub_list", !.text_content = r.v],
                        <<ListFrame(Get(r.next).e.n = 1)>>)
                /\ Kept
           ELSE Fail("Expected list item", r.next, 0, 0)

ListItemText ==
    /\ Returned("parse_list_item", "parse_inline_sequence")
    /\ LET r == Get(ret)
       IN  IF r.next = None
           THEN Abort("Unclosed list item")
           ELSE IF Len(r.v) = 0
           THEN Fail("List item with empty text", r.next, 0, 0)
           ELSE IF Kind(r.next) = "EndItem"
           THEN Return("parse_list_item", ListItem(r.v, None), None) /\ Kept
           ELSE IF Kind(r.next) = "StartList"
           THEN /\ Call([Top EXCEPT !.pc = "sub_list", !.text_content = r.v],
                        <<ListFrame(Get(r.next).e.n = 1)>>)
                /\ Kept
           ELSE Fail("Expected list item", r.next, 0, 0)

ListItemSubList ==
    /\ Returned("parse_list_item", "parse_list")
    /\ \E c \in Consumable :
        IF c = None
        THEN Abort("Unclosed list item")
        ELSE IF Kind(c) = "EndItem"
        THEN /\ Consumed(c)
             /\ Return("parse_list_item", ListItem(Top.text_content, Some(Get(ret).v)), None)
        ELSE Fail("Expected list item end", c, 0, 0)

(***************************************************************************)
(* try_parse_block: Ok(block) is returned as v = Some(block), Err(next) as *)
(* v = None with the unconsumed event.                                     *)
(***************************************************************************)
BlockStartParagraph ==
    /\ At("try_parse_block") /\ Top.pc = "start"
    /\ \E c \in Consumable :
        /\ Kind(c) = "StartParagraph"
        /\ Consumed(c)
        /\ Call([Top EXCEPT !.pc = "paragraph"], <<ParagraphFrame, SequenceFrame, InlineFrame>>)

BlockStartRule ==
    /\ At("try_parse_block") /\ Top.pc = "start"
    /\ \E c \in Consumable :
        /\ Kind(c) = "StartRule"
        /\ Consumed(c)
        /\ Continue([Top EXCEPT !.pc = "rule"])

BlockRuleEnd ==
    /\ At("try_parse_block") /\ Top.pc = "rule"
    /\ \E c \in Consumable :
        IF c = None
        THEN Abort("Unclosed rule")
        ELSE IF Kind(c) = "EndRule"
        THEN Consumed(c) /\ Return("try_parse_block", Some(Rule), None)
        ELSE Abort("Expected rule end")

BlockStartList ==
    /\ At("try_parse_block") /\ Top.pc = "start"
    /\ \E c \in Consumable :
        /\ Kind(c) = "StartList"
        /\ Consumed(c)
        /\ Call([Top EXCEPT !.pc = "list"], <<ListFrame(Get(c).e.n = 1)>>)

\* `next => Err(next)`: not a block, the event goes back to the caller
BlockNone ==
    /\ At("try_parse_block") /\ Top.pc = "start"
    /\ \E c \in Consumable :
        /\ Kind(c) \notin {"StartParagraph", "StartRule", "StartList"}
        /\ Consumed(c)
        /\ Return("try_parse_block", None, c)

BlockParagraph ==
    /\ Returned("try_parse_block", "parse_paragraph")
    /\ Return("try_parse_block", Some(Paragraph(Get(ret).v)), None)
    /\ Kept

BlockList ==
    /\ Returned("try_parse_block", "parse_list")
    /\ Return("try_parse_block", Some(ListBlock(Get(ret).v)), None)
    /\ Kept

(***************************************************************************)
(* parse_section_content_at_level                                          *)
(***************************************************************************)
\* Mutant: any deeper header opens a sub section.
HeaderStep_SkipLevels(new_level, level) ==
    IF new_level <= level THEN "break" ELSE "sub_section"
\* Mutant: a header that is too deep ends the section like a lesser one.
HeaderStep_DeepBreaks(new_level, level) ==
    IF new_level = level + 1 THEN "sub_section" ELSE "break"

\* the three branches of the while-let loop on a header start of new_level
HeaderStep(new_level, level) ==
    IF new_level <= level THEN "break"
    ELSE IF new_level = level + 1 THEN "sub_section"
    ELSE "too_deep"

ContentBlock ==
    /\ Returned("parse_section_content_at_level", "try_parse_block")
    /\ IsSome(Get(ret).v)
    /\ Call([Top EXCEPT !.blocks = Append(@, Get(Get(ret).v))], <<BlockFrame>>)
    /\ Kept

\* `Err(next) => break next`
ContentBlocksEnd ==
    /\ Returned("parse_section_content_at_level", "try_parse_block")
    /\ Get(ret).v = None
    /\ Continue([Top EXCEPT !.pc = "sections", !.next = Get(ret).next])
    /\ Kept

\* a sub section: parse_section_of_level(new_level) is called
ContentSubSection ==
    /\ At("parse_section_content_at_level") /\ Top.pc = "sections"
    /\ Kind(Top.next) = "StartHeader"
    /\ LET new_level == Get(Top.next).e.n
       IN  IF new_level \notin 1..MaxHeaderLevel
           THEN Abort("assertion failed: (1..=6).contains(&new_level)")
           ELSE /\ HeaderStep(new_level, Top.level) = "sub_section"
                /\ Call([Top EXCEPT !.pc = "sub_section"],
                        <<SectionFrame(new_level), InlineFrame>>)
                /\ Kept

ContentTooDeep ==
    /\ At("parse_section_content_at_level") /\ Top.pc = "sections"
    /\ Kind(Top.next) = "StartHeader"
    /\ LET new_level == Get(Top.next).e.n
       IN  /\ new_level \in 1..MaxHeaderLevel
           /\ HeaderStep(new_level, Top.level) = "too_deep"
           /\ Fail("Header is too deep for current level", Top.next, new_level, Top.level)

\* Mutant: the end of the stream is accepted at level 0 only.
ContentReturn_EofFatal ==
    /\ At("parse_section_content_at_level") /\ Top.pc = "sections"
    /\ IF Kind(Top.next) = "StartHeader"
       THEN /\ Get(Top.next).e.n \in 1..MaxHeaderLevel
            /\ HeaderStep(Get(Top.next).e.n, Top.level) = "break"
       ELSE TRUE
    /\ IF Top.next = None /\ Top.level > 0
       THEN Abort("Unexpected end of stream")
       ELSE /\ Return("parse_section_content_at_level",
                      SectionContent(Top.blocks, Top.sub_sections), Top.next)
            /\ Kept

\* the loop ends (a header of a lesser or equal level, or no header start):
\* the content and the unconsumed event go back to the caller
ContentReturn ==
    /\ At("parse_section_content_at_level") /\ Top.pc = "sections"
    /\ IF Kind(Top.next) = "StartHeader"
       THEN /\ Get(Top.next).e.n \in 1..MaxHeaderLevel
            /\ HeaderStep(Get(Top.next).e.n, Top.level) = "break"
       ELSE TRUE
    /\ Return("parse_section_content_at_level",
              SectionContent(Top.blocks, Top.sub_sections), Top.next)
    /\ Kept

\* Mutant: the event left over by the sub section is dropped.
ContentSubSectionPushed_DropNext ==
    /\ Returned("parse_section_content_at_level", "parse_section_of_level")
    /\ Continue([Top EXCEPT !.pc = "sections",
                            !.sub_sections = Append(@, Get(ret).v),
                            !.next = None])
    /\ Kept

ContentSubSectionPushed ==
    /\ Returned("parse_section_content_at_level", "parse_section_of_level")
    /\ Continue([Top EXCEPT !.pc = "sections",
                            !.sub_sections = Append(@, Get(ret).v),
                            !.next = Get(ret).next])
    /\ Kept

(***************************************************************************)
(* parse_section_of_level                                                  *)
(***************************************************************************)
SectionTitle ==
    /\ Returned("parse_section_of_level", "parse_inline")
    /\ LET r == Get(ret)
       IN  IF IsSome(r.v) /\ Kind(r.next) = "EndHeader"
           THEN IF Get(r.next).e.n = Top.level
                THEN /\ Call([Top EXCEPT !.title = r.v],
                             <<ContentFrame(Top.level), BlockFrame>>)
                     /\ Kept
                ELSE Abort("assertion failed: n == level")
           ELSE IF IsSome(r.next)
           THEN Fail("Expected header title for level", r.next, Top.level, 0)
           ELSE IF r.v = None
           THEN Abort("Header without title")
           ELSE Abort("Unclosed header")

\* Mutant: the section returns without the event its content left over.
SectionReturn_DropNext ==
    /\ Returned("parse_section_of_level", "parse_section_content_at_level")
    /\ Return("parse_section_of_level", Section(Get(Top.title), Get(ret).v), None)
    /\ Kept

SectionReturn ==
    /\ Returned("parse_section_of_level", "parse_section_content_at_level")
    /\ Return("parse_section_of_level", Section(Get(Top.title), Get(ret).v), Get(ret).next)
    /\ Kept

(***************************************************************************)
(* parse_document.  On success parse() returns the document with the       *)
(* keyword set; the stream stays as the record of the input parsed.        *)
(***************************************************************************)
DocumentReturn ==
    /\ Returned("parse_document", "parse_section_content_at_level")
    /\ IF Get(ret).next = None
       THEN /\ result' = Some(Outcome("Ok", Some(Get(ret).v), "", None, 0, 0, 0))
            /\ stack' = <<>>
            /\ ret' = None
            /\ Kept
       ELSE Fail("Unexpected element", Get(ret).next, 0, 0)

(***************************************************************************)
(* parse(): ParsingState::new(text, &mut keywords).parse_document(), which *)
(* starts by calling parse_section_content_at_level(0).                    *)
(***************************************************************************)
Init ==
    /\ input \in Profiles
    /\ stream = <<>>
    /\ ended = FALSE
    /\ keywords = <<>>
    /\ inline_element_count = 0
    /\ stack = <<DocumentFrame, ContentFrame(0), BlockFrame>>
    /\ ret = None
    /\ result = None
    /\ text = <<>> /\ report = <<>>
    /\ regex = <<>> /\ haystack = <<>> /\ matches = <<>> /\ last_end = <<>>
    /\ indexed = <<>>


(***************************************************************************)
(* Observations of the run and of the tree                                 *)
(***************************************************************************)
IsOk == result # None /\ Get(result).kind = "Ok"
IsErr == result # None /\ Get(result).kind = "Err"
IsPanic == result # None /\ Get(result).kind = "Panic"
Document == Get(Get(result).doc)
ErrorOf(msg, c, a, b) == Some(Outcome("Err", None, msg, Some(Get(c).e), Get(c).o, a, b))

(***************************************************************************)
(* The error report of parse(): parse_document has returned Err((msg,      *)
(* offset)) and parse() turns it into "At line {}: {}" with the line of    *)
(* the offset in the source text.  The texts are all the byte strings of   *)
(* a bounded length over a newline and another byte; the offset is any     *)
(* offset up to one past the end.                                          *)
(***************************************************************************)
Min(a, b) == IF a < b THEN a ELSE b
SourceBytes == {"a", "\n"}
SourceTexts == UNION {[1..n -> SourceBytes] : n \in 0..MaxTextLen}
ErrorMessages == {"Unexpected element", "List item with empty text"}

\* text.bytes().take(offset).filter(|b| *b == b'\n').count()
take(bytes, n) == SubSeq(bytes, 1, Min(n, Len(bytes)))
\* Mutant: the byte at the offset is counted too.
line_number_of_offset_Inclusive(bytes, offset) ==
    Len(SelectSeq(take(bytes, offset + 1), LAMBDA b : b = "\n"))
line_number_of_offset(bytes, offset) ==
    Len(SelectSeq(take(bytes, offset), LAMBDA b : b = "\n"))

\* Display for usize: the decimal digits
Digits == <<"0", "1", "2", "3", "4", "5", "6", "7", "8", "9">>
RECURSIVE Decimal(_)
Decimal(n) ==
    IF n < 10 THEN <<Digits[n + 1]>>
    ELSE Decimal(n \div 10) \o <<Digits[(n % 10) + 1]>>
\* format!("At line {}: {}", line, msg); the message is kept as one piece
FormatError(line, msg) == <<"At line ">> \o Decimal(line) \o <<": ", msg>>

\* Err((msg, offset)) => Err(format!(...))
ParseErr ==
    /\ IsErr /\ report = None
    /\ report' = Some(FormatError(line_number_of_offset(text, Get(result).o) + 1,
                                  Get(result).msg))
    /\ UNCHANGED <<parser_vars, text, matcher_vars, indexed>>

ReportInit ==
    /\ input = NoInput
    /\ stream = <<>> /\ ended = FALSE /\ keywords = <<>> /\ inline_element_count = 0
    /\ stack = <<>> /\ ret = None
    /\ \E msg \in ErrorMessages, o \in 0..(MaxTextLen + 1) :
           result = Some(Outcome("Err", None, msg, Some(Unsupported), o, 0, 0))
    /\ text \in SourceTexts
    /\ report = None
    /\ regex = <<>> /\ haystack = <<>> /\ matches = <<>> /\ last_end = <<>>
    /\ indexed = <<>>

ReportNext == ParseErr

ReportSpec == ReportInit /\ [][ReportNext]_vars

(***************************************************************************)
(* keyword_search_regex (src/src/document.rs): the keywords are sorted by  *)
(* decreasing length, escaped, joined into "\b(k1|k2|...)\b" and compiled  *)
(* case-insensitive.  sort_unstable_by_key leaves the order of keywords of *)
(* equal length open: every such order is a possible outcome.              *)
(***************************************************************************)
\* the orders of the indices of list that sort it by decreasing length
SortedByLength(list) ==
    {p \in [1..Len(list) -> 1..Len(list)] :
        /\ \A i, j \in 1..Len(list) : i # j => p[i] # p[j]
        /\ \A i, j \in 1..Len(list) : i < j => len(list[p[i]]) >= len(list[p[j]])}
Reordered(list, p) == [i \in 1..Len(list) |-> list[p[i]]]

\* regex::escape: a backslash before every meta character
RegexMeta == {"\\", ".", "+", "*", "?", "(", ")", "|", "[", "]", "{", "}", "^", "$",
              "#", "&", "-", "~"}
RECURSIVE escape_regex_special_chars(_)
escape_regex_special_chars(str) ==
    IF str = <<>> THEN <<>>
    ELSE (IF Head(str) \in RegexMeta THEN <<"\\", Head(str)>> ELSE <<Head(str)>>)
         \o escape_regex_special_chars(Tail(str))
RECURSIVE join(_, _)
join(list, sep) ==
    IF list = <<>> THEN <<>>
    ELSE IF Len(list) = 1 THEN list[1]
    ELSE list[1] \o sep \o join(Tail(list), sep)
\* format!(r"\b({})\b", ...)
regex_str(keyword_list) ==
    <<"\\", "b", "(">> \o join(keyword_list, <<"|">>) \o <<")", "\\", "b">>

\* RegexBuilder::build on a pattern of that form: the alternatives of the group,
\* each a sequence of atoms (a literal character, or `.`)
Literal(c) == [k |-> "literal", c |-> c]
AnyChar == [k |-> "any", c |-> ""]
RECURSIVE ParseAlternatives(_, _, _, _)
ParseAlternatives(pattern, i, alt, alts) ==
    IF i > Len(pattern) \/ pattern[i] = ")" THEN Append(alts, alt)
    ELSE IF pattern[i] = "|" THEN ParseAlternatives(pattern, i + 1, <<>>, Append(alts, alt))
    ELSE IF pattern[i] = "\\"
    THEN ParseAlternatives(pattern, i + 2, Append(alt, Literal(pattern[i + 1])), alts)
    ELSE IF pattern[i] = "."
    THEN ParseAlternatives(pattern, i + 1, Append(alt, AnyChar), alts)
    ELSE ParseAlternatives(pattern, i + 1, Append(alt, Literal(pattern[i])), alts)
RegexBuild(pattern) ==
    [alternatives |-> ParseAlternatives(pattern, 4, <<>>, <<>>), case_insensitive |-> TRUE]

\* Mutant: the first keyword of the sorted list is tested, not the last.
keyword_search_regex_TestsFirst(keyword_list) ==
    IF keyword_list = <<>> \/ len(keyword_list[1]) = 0
    THEN None
    ELSE Some(RegexBuild(regex_str(
             [i \in 1..Len(keyword_list) |-> escape_regex_special_chars(keyword_list[i])])))
\* the function after the sort, for one outcome keyword_list of the sort
keyword_search_regex(keyword_list) ==
    IF keyword_list = <<>> \/ len(keyword_list[Len(keyword_list)]) = 0
    THEN None
    ELSE Some(RegexBuild(regex_str(
             [i \in 1..Len(keyword_list) |-> escape_regex_special_chars(keyword_list[i])])))

(***************************************************************************)
(* The search of the regex crate: the leftmost match, and at one start the *)
(* first alternative, in the order of the pattern, with which the whole    *)
(* pattern matches (leftmost-first).  \b is a position between a word      *)
(* character and a character that is not one, or the edge of the text.     *)
(***************************************************************************)
IsWord(c) ==
    \/ \E i \in 1..Len(LowerCase) : c = LowerCase[i] \/ c = UpperCase[i]
    \/ \E i \in 1..Len(Digits) : c = Digits[i]
    \/ c = "_" \/ c = Kelvin
WordAt(hay, i) == i \in 1..Len(hay) /\ IsWord(hay[i])
\* Mutant: every position is a boundary.
WordBoundary_Anywhere(hay, p) == TRUE
\* \b at offset p, between hay[p] and hay[p + 1]
WordBoundary(hay, p) == WordAt(hay, p) # WordAt(hay, p + 1)
AtomMatches(re, atom, c) ==
    IF atom.k = "any" THEN c # "\n"
    ELSE IF re.case_insensitive THEN Lower(atom.c) = Lower(c)
    ELSE atom.c = c
AlternativeMatches(re, alt, hay, start) ==
    /\ start + Len(alt) <= Len(hay)
    /\ \A i \in 1..Len(alt) : AtomMatches(re, alt[i], hay[start + i])
    /\ WordBoundary(hay, start + Len(alt))
MatchAt(re, hay, start) ==
    LET found == {i \in 1..Len(re.alternatives) :
                     AlternativeMatches(re, re.alternatives[i], hay, start)}
    IN  IF WordBoundary(hay, start) /\ found # {}
        THEN LET first == CHOOSE i \in found : \A j \in found : i <= j
             IN  Some([start |-> start, end |-> start + Len(re.alternatives[first])])
        ELSE None
find_at(re, hay, from) ==
    LET starts == {x \in from..Len(hay) : IsSome(MatchAt(re, hay, x))}
    IN  IF starts = {} THEN None
        ELSE MatchAt(re, hay, CHOOSE x \in starts : \A y \in starts : x <= y)

\* keyword_search_regex(&keywords)
KeywordSearchRegex ==
    /\ regex = <<>>
    /\ \E p \in SortedByLength(keywords) :
           regex' = <<keyword_search_regex(Reordered(keywords, p))>>
    /\ UNCHANGED <<parser_vars, report_vars, haystack, matches, last_end, indexed>>

\* one call of next() on regex.find_iter(haystack)
FindNext ==
    /\ regex # <<>> /\ IsSome(Get(regex)) /\ IsSome(last_end)
    /\ LET m == find_at(Get(Get(regex)), haystack, Get(last_end))
       IN  IF IsSome(m)
           THEN matches' = Append(matches, Get(m)) /\ last_end' = Some(Get(m).end)
           ELSE matches' = matches /\ last_end' = None
    /\ UNCHANGED <<parser_vars, report_vars, regex, haystack, indexed>>

(***************************************************************************)
(* The matcher on its own: a vocabulary (an IndexSet: no two entries equal *)
(* ignoring case; the empty entry is possible) and a text to search.       *)
(***************************************************************************)
KeywordChars == {"a", "."}
HaystackChars == {"a", "."}
Cat == <<"c", "a", "t">>
Catalog == <<"c", "a", "t", "a", "l", "o", "g">>
Concatenate == <<"c", "o", "n", "c", "a", "t", "e", "n", "a", "t", "e">>
KeywordStrings == UNION {[1..n -> KeywordChars] : n \in 0..MaxKeywordLen}
Vocabularies ==
    {v \in UNION {[1..n -> KeywordStrings] : n \in 0..MaxVocabulary} :
        \A i, j \in 1..Len(v) : i < j => ~UniCaseEq(v[i], v[j])}
    \cup {<<Cat>>, <<Cat, Catalog>>, <<Catalog, Cat>>}
    \cup {<<(<<Kelvin>>)>>, <<(<<Kelvin>>), <<"k", ".">>>>, <<(<<"k", ".">>), <<Kelvin>>>>}
Haystacks ==
    UNION {[1..n -> HaystackChars] : n \in 0..MaxHaystackLen}
    \cup {Catalog, Concatenate, <<"C", "a", "t">>, <<"k", ".", "a">>}
    \cup {<<"A">>, <<"a", "A">>, <<"A", ".", "a">>, <<".", "A", ".">>, <<"a", ".", "a">>}
    \cup {<<" ", "a", " ">>, <<" ", "a", ".", " ">>, <<" ", ".", "a", " ">>}

MatcherInit ==
    /\ input = NoInput
    /\ stream = <<>> /\ ended = FALSE /\ inline_element_count = 0
    /\ stack = <<>> /\ ret = None /\ result = None
    /\ text = <<>> /\ report = None
    /\ keywords \in Vocabularies
    /\ haystack \in Haystacks
    /\ regex = <<>> /\ matches = <<>> /\ last_end = Some(0)
    /\ indexed = <<>>

MatcherNext == KeywordSearchRegex \/ FindNext

MatcherSpec == MatcherInit /\ [][MatcherNext]_vars

(***************************************************************************)
(* IndexedDocument::from (src/src/document.rs), called on the document and *)
(* the keyword set a successful parse() has returned.  It unwraps the      *)
(* regex, scans the blocks of the document and then of every section in    *)
(* depth-first order (scan_inline is an empty closure, a list block is     *)
(* unimplemented!()), prints the matches of a fixed text and ends with     *)
(* unimplemented!(): no path returns an IndexedDocument.                   *)
(***************************************************************************)
\* a panic of the indexer, with the expression that raised it
IndexerPanic(msg, site) == [kind |-> "Panic", msg |-> msg, site |-> site]
\* scan_blocks: the blocks are visited in order, a list block panics
scan_blocks(blocks) ==
    IF \E i \in 1..Len(blocks) : blocks[i].b = "List"
    THEN Some(IndexerPanic("not implemented", "BlockElement::List(_) => unimplemented!()"))
    ELSE None
\* section_dfs_mut over the sections of one level: scan_inline(title), then
\* scan_blocks(content.blocks), then the sub-sections, then the next section
RECURSIVE section_dfs_mut(_)
section_dfs_mut(sections) ==
    IF sections = <<>> THEN None
    ELSE LET here == scan_blocks(Head(sections).content.blocks)
             below == section_dfs_mut(Head(sections).content.sub_sections)
         IN  IF IsSome(here) THEN here
             ELSE IF IsSome(below) THEN below
             ELSE section_dfs_mut(Tail(sections))
\* the outcome of from(document, keywords), keyword_list being the sorted keywords
IndexedDocument_from(document, keyword_list) ==
    IF keyword_search_regex(keyword_list) = None
    THEN IndexerPanic("called Option::unwrap() on a None value",
                      "keyword_search_regex(&keywords).unwrap()")
    ELSE IF IsSome(scan_blocks(document.blocks)) THEN Get(scan_blocks(document.blocks))
    ELSE IF IsSome(section_dfs_mut(document.sub_sections))
         THEN Get(section_dfs_mut(document.sub_sections))
    ELSE IndexerPanic("not implemented", "unimplemented!()")

\* IndexedDocument::from(document, keywords) on the result of parse()
IndexedDocumentFrom ==
    /\ IsOk
    /\ indexed = None
    /\ \E p \in SortedByLength(keywords) :
           indexed' = Some(IndexedDocument_from(Document, Reordered(keywords, p)))
    /\ UNCHANGED <<parser_vars, report_vars, matcher_vars>>

(***************************************************************************)
(* The program: the steps of parse_document, then the indexer on its       *)
(* result.                                                                 *)
(***************************************************************************)
Next ==
    \/ InlineText \/ InlineStartEmphasis \/ InlineEndEmphasis
    \/ InlineStartStrong \/ InlineEndStrong \/ InlineReturn
    \/ InlineSequenceBreak \/ InlineSequenceReturn
    \/ ParagraphEnd
    \/ ListNext \/ ListItemPushed \/ ListItemText \/ ListItemSubList
    \/ BlockStartParagraph \/ BlockStartRule \/ BlockRuleEnd \/ BlockStartList
    \/ BlockNone \/ BlockParagraph \/ BlockList
    \/ ContentBlock \/ ContentBlocksEnd \/ ContentSubSection \/ ContentTooDeep
    \/ ContentReturn \/ ContentSubSectionPushed
    \/ SectionTitle \/ SectionReturn
    \/ DocumentReturn
    \/ IndexedDocumentFrom

Spec == Init /\ [][Next]_vars

\* the depths of the sections of `sections` (at depth d) and below, in pre-order
RECURSIVE DepthsOf(_, _)
DepthsOf(sections, d) ==
    IF sections = <<>> THEN <<>>
    ELSE <<d>> \o DepthsOf(Head(sections).content.sub_sections, d + 1)
             \o DepthsOf(Tail(sections), d)
SectionDepths(doc) == DepthsOf(doc.sub_sections, 1)
\* the titles of the sections, in pre-order
RECURSIVE TitlesOf(_)
TitlesOf(sections) ==
    IF sections = <<>> THEN <<>>
    ELSE <<Head(sections).title.string>> \o TitlesOf(Head(sections).content.sub_sections)
             \o TitlesOf(Tail(sections))
CountSections(sections) == Len(DepthsOf(sections, 1))

\* the levels of the header starts of the stream, in order
HeaderLevels(s) ==
    LET starts == SelectSeq(s, LAMBDA e : e.k = "StartHeader")
    IN  [i \in 1..Len(starts) |-> starts[i].n]
\* the text between each header start and its header end, in order
RECURSIVE TitleScan(_, _, _, _)
TitleScan(s, i, open, cur) ==
    IF i > Len(s) THEN <<>>
    ELSE IF s[i].k = "StartHeader" THEN TitleScan(s, i + 1, TRUE, <<>>)
    ELSE IF s[i].k = "EndHeader" /\ open THEN <<cur>> \o TitleScan(s, i + 1, FALSE, <<>>)
    ELSE IF s[i].k = "Text" /\ open THEN TitleScan(s, i + 1, TRUE, cur \o s[i].s)
    ELSE TitleScan(s, i + 1, open, cur)
HeaderTitles(s) == TitleScan(s, 1, FALSE, <<>>)

SectionFns == {"parse_document", "parse_section_content_at_level", "parse_section_of_level"}
\* the unconsumed event in flight between the section functions: returned by
\* try_parse_block as "not a block", or by a section or its content as leftover,
\* or held by the loop of parse_section_content_at_level
Pending ==
    IF ~Running \/ stack = <<>> THEN None
    ELSE IF ret # None
    THEN IF Get(ret).from \in SectionFns \/ (Get(ret).from = "try_parse_block" /\ Get(ret).v = None)
         THEN Get(ret).next ELSE None
    ELSE IF Top.fn = "parse_section_content_at_level" /\ Top.pc = "sections"
    THEN Top.next ELSE None

\* the sections built so far, and the sections whose header is open
RECURSIVE SectionsIn(_)
SectionsIn(frames) ==
    IF frames = <<>> THEN 0
    ELSE LET f == Head(frames)
         IN  (IF f.fn = "parse_section_content_at_level" THEN CountSections(f.sub_sections)
              ELSE IF f.fn = "parse_section_of_level" THEN 1
              ELSE 0) + SectionsIn(Tail(frames))
SectionsReturned ==
    IF ret = None THEN 0
    ELSE IF Get(ret).from = "parse_section_of_level"
    THEN 1 + CountSections(Get(ret).v.content.sub_sections)
    ELSE IF Get(ret).from = "parse_section_content_at_level"
    THEN CountSections(Get(ret).v.sub_sections)
    ELSE 0
\* a header start that was consumed and not handled yet
HeaderInFlight ==
    IF ret # None THEN (IF Kind(Get(ret).next) = "StartHeader" THEN 1 ELSE 0)
    ELSE IF Kind(Pending) = "StartHeader" THEN 1 ELSE 0
\* every open section is one level below the content that called it, and every
\* content of a level above 0 is the content of the open section of that level
OpenSectionsNested ==
    \A i \in 1..Len(stack) :
        /\ stack[i].fn = "parse_section_of_level" =>
            /\ stack[i - 1].fn = "parse_section_content_at_level"
            /\ stack[i - 1].pc = "sub_section"
            /\ stack[i - 1].level = stack[i].level - 1
        /\ stack[i].fn = "parse_section_content_at_level" =>
            IF stack[i].level = 0 THEN i = 2
            ELSE /\ stack[i - 1].fn = "parse_section_of_level"
                 /\ stack[i - 1].level = stack[i].level

(***************************************************************************)
(* C1: in the tree of a successful parse the sections, in pre-order, have  *)
(* as depth the level of the header start they come from (so a sub-section *)
(* of the root comes from a level-1 header and a sub-section of a level-L  *)
(* section from a level-(L+1) header), and no section is deeper than 6.    *)
(***************************************************************************)
C1_NoSkippedLevel ==
    IsOk =>
        /\ SectionDepths(Document) = HeaderLevels(stream)
        /\ \A i \in 1..Len(SectionDepths(Document)) : SectionDepths(Document)[i] <= 6
\* a successful parse with sections down to level 6
C1_Witness == IsOk /\ \E i \in 1..Len(SectionDepths(Document)) : SectionDepths(Document)[i] = 6

(***************************************************************************)
(* C2: the leftover event is never swallowed and is handled exactly once.  *)
(* While parsing, every header start consumed is either in flight or has   *)
(* given exactly one section (built or open), every open section of level  *)
(* n hangs under the open content of level n-1; in a successful parse the  *)
(* tree has one section per header start and the pre-order of the titles   *)
(* is the order of the headers in the stream.                              *)
(***************************************************************************)
C2_LeftoverHandledOnce ==
    /\ Running =>
        /\ SectionsIn(stack) + SectionsReturned + HeaderInFlight = Len(HeaderLevels(stream))
        /\ OpenSectionsNested
    /\ IsOk =>
        /\ CountSections(Document.sub_sections) = Len(HeaderLevels(stream))
        /\ TitlesOf(Document.sub_sections) = HeaderTitles(stream)
\* a header start of level 1 is in flight while sections of level 1 and 2 are open:
\* it has to close both and open a sibling of the first
C2_Witness ==
    /\ Running /\ stack # <<>> /\ ret = None
    /\ Top.fn = "parse_section_content_at_level" /\ Top.level = 2 /\ Top.pc = "sections"
    /\ Kind(Top.next) = "StartHeader" /\ Get(Top.next).e.n = 1

(***************************************************************************)
(* C3: when the content of level L holds a pending header start of a level *)
(* above L+1 (levels 1..6), the next step ends the run with the error      *)
(* "Header is too deep" that carries both levels and the offset of that    *)
(* header start; it is neither a panic nor a document.                     *)
(***************************************************************************)
TooDeepPending ==
    /\ At("parse_section_content_at_level") /\ Top.pc = "sections"
    /\ Kind(Top.next) = "StartHeader"
    /\ Get(Top.next).e.n \in 1..MaxHeaderLevel
    /\ Get(Top.next).e.n > Top.level + 1
C3_TooDeepHeaderIsError ==
    [][TooDeepPending =>
        /\ stream[Get(Top.next).o + 1] = Get(Top.next).e
        /\ result' = ErrorOf("Header is too deep for current level", Top.next,
                             Get(Top.next).e.n, Top.level)]_vars
\* a level-3 header directly under a level-1 header was refused
C3_Witness ==
    /\ IsErr /\ Get(result).msg = "Header is too deep for current level"
    /\ Get(result).a = 3 /\ Get(result).b = 1 /\ Get(result).o > 0

(***************************************************************************)
(* C4 (as claimed): end of stream is a success only at level 0, so a       *)
(* successful parse never ends in a section.  The section whose content is *)
(* being parsed when the stream ends is the one of the last header start.  *)
(***************************************************************************)
C4_EndOfStreamOnlyAtLevel0 == IsOk => LastHeaderLevel(stream) = 0

(***************************************************************************)
(* C4 (amended): end of stream at block-start position is a success at     *)
(* every level: once the stream has ended there, every step closes an open *)
(* section or returns the document, and the run is never stuck before.     *)
(***************************************************************************)
EndedAtBlockStart ==
    /\ Running /\ ended /\ stack # <<>>
    /\ \A i \in 1..Len(stack) : stack[i].fn \in SectionFns
    /\ ret # None =>
        /\ Get(ret).from \in SectionFns \cup {"try_parse_block"}
        /\ Get(ret).next = None
C4_EndOfStreamClosesSections ==
    /\ [](EndedAtBlockStart => ENABLED Next)
    /\ [][EndedAtBlockStart => (EndedAtBlockStart' \/ IsOk')]_vars
\* the stream ended in a section of level 2 and the document was returned
C4_Witness == IsOk /\ ended /\ LastHeaderLevel(stream) = 2

(***************************************************************************)
(* C5: an event at block-start position that starts neither a block nor a  *)
(* header stays the pending event, unchanged, through every enclosing      *)
(* level until parse_document returns the error "Unexpected element" with  *)
(* that event and its offset; the run is never stuck on the way.           *)
(***************************************************************************)
UnexpectedPending == IsSome(Pending) /\ Kind(Pending) # "StartHeader"
C5_UnexpectedEventIsError ==
    /\ [](UnexpectedPending => ENABLED Next)
    /\ [][UnexpectedPending =>
            \/ Running' /\ Pending' = Pending
            \/ result' = ErrorOf("Unexpected element", Pending, 0, 0)]_vars
\* an unsupported event is pending in the content of a level-2 section
C5_Witness ==
    /\ UnexpectedPending /\ Kind(Pending) = "Unsupported"
    /\ ret = None /\ Top.level = 2

(***************************************************************************)
(* The inline units of a tree, in document order: a section title before   *)
(* its content, blocks before sub-sections, an item's text before its      *)
(* nested list.                                                            *)
(***************************************************************************)
RECURSIVE ItemsUnits(_)
ItemsUnits(items) ==
    IF items = <<>> THEN <<>>
    ELSE Head(items).text_content
         \o (IF IsSome(Head(items).sub_list)
             THEN ItemsUnits(Get(Head(items).sub_list).items) ELSE <<>>)
         \o ItemsUnits(Tail(items))
RECURSIVE BlocksUnits(_)
BlocksUnits(blocks) ==
    IF blocks = <<>> THEN <<>>
    ELSE (IF Head(blocks).b = "Paragraph" THEN Head(blocks).inlines
          ELSE IF Head(blocks).b = "List" THEN ItemsUnits(Get(Head(blocks).list).items)
          ELSE <<>>)
         \o BlocksUnits(Tail(blocks))
RECURSIVE SectionsUnits(_)
SectionsUnits(sections) ==
    IF sections = <<>> THEN <<>>
    ELSE <<Head(sections).title>>
         \o BlocksUnits(Head(sections).content.blocks)
         \o SectionsUnits(Head(sections).content.sub_sections)
         \o SectionsUnits(Tail(sections))
Units(doc) == BlocksUnits(doc.blocks) \o SectionsUnits(doc.sub_sections)

\* parse_inline has just returned a unit
UnitReturned == Running /\ ret # None /\ Get(ret).from = "parse_inline" /\ IsSome(Get(ret).v)
ReturnedUnit == Get(Get(ret).v)
KeywordTags(u) == SelectSeq(u.tags, LAMBDA g : g.tag = "ExplicitKeyword")
HighlightTags(u) == SelectSeq(u.tags, LAMBDA g : g.tag = "Highlight")
Overlap(g, h) ==
    (IF g.start > h.start THEN g.start ELSE h.start) < (IF g.end < h.end THEN g.end ELSE h.end)

(***************************************************************************)
(* C6: every tagged range of a unit returned by parse_inline, and of every *)
(* unit of a finished tree, is a range of the unit's own string:           *)
(* 0 <= start <= end <= length.                                            *)
(***************************************************************************)
ValidRanges(u) ==
    \A i \in 1..Len(u.tags) :
        /\ u.tags[i].tag \in {"Highlight", "ExplicitKeyword"}
        /\ 0 <= u.tags[i].start
        /\ u.tags[i].start <= u.tags[i].end
        /\ u.tags[i].end <= Len(u.string)
C6_ValidRanges ==
    /\ UnitReturned => ValidRanges(ReturnedUnit)
    /\ IsOk => \A i \in 1..Len(Units(Document)) : ValidRanges(Units(Document)[i])
\* a unit with a keyword inside a highlight, both opened after some text
C6_Witness ==
    /\ UnitReturned
    /\ HighlightTags(ReturnedUnit) # <<>> /\ KeywordTags(ReturnedUnit) # <<>>
    /\ \A i \in 1..Len(ReturnedUnit.tags) :
        /\ 0 < ReturnedUnit.tags[i].start
        /\ ReturnedUnit.tags[i].start < ReturnedUnit.tags[i].end

(***************************************************************************)
(* C7: in a unit returned by parse_inline no two Highlight ranges overlap  *)
(* and no two ExplicitKeyword ranges overlap.                              *)
(***************************************************************************)
NoOverlap(tags) == \A i, j \in 1..Len(tags) : i < j => ~Overlap(tags[i], tags[j])
C7_NoOverlapWithinKind ==
    UnitReturned =>
        /\ NoOverlap(HighlightTags(ReturnedUnit))
        /\ NoOverlap(KeywordTags(ReturnedUnit))
\* a unit with two keywords, the second starting where the first ends
C7_Witness ==
    /\ UnitReturned
    /\ Len(KeywordTags(ReturnedUnit)) = 2
    /\ \A i \in 1..2 : KeywordTags(ReturnedUnit)[i].start < KeywordTags(ReturnedUnit)[i].end
    /\ KeywordTags(ReturnedUnit)[2].start = KeywordTags(ReturnedUnit)[1].end

(***************************************************************************)
(* C8: the vocabulary is case-insensitive, deduplicating and index-stable: *)
(* no two entries are equal ignoring case, an entry never moves while the  *)
(* build pass runs, every keyword tag of a unit returned by parse_inline   *)
(* and of the finished tree has an index below the vocabulary size whose   *)
(* entry equals the tagged text ignoring case.                             *)
(***************************************************************************)
TagsInVocabulary(u) ==
    \A i \in 1..Len(u.tags) :
        u.tags[i].tag = "ExplicitKeyword" =>
            /\ u.tags[i].k < Len(keywords)
            /\ ToLower(keywords[u.tags[i].k + 1])
                   = ToLower(Slice(u.string, u.tags[i].start, u.tags[i].end))
C8_VocabularyStable ==
    /\ [](\A i, j \in 1..Len(keywords) :
              i < j => ToLower(keywords[i]) # ToLower(keywords[j]))
    /\ [](UnitReturned => TagsInVocabulary(ReturnedUnit))
    /\ [](IsOk => \A i \in 1..Len(Units(Document)) : TagsInVocabulary(Units(Document)[i]))
    /\ [][(Running' \/ IsOk') =>
            /\ Len(keywords) <= Len(keywords')
            /\ SubSeq(keywords', 1, Len(keywords)) = keywords]_vars
\* the occurrences of keywords in the tree: index and tagged text
RECURSIVE Occurrences(_)
Occurrences(units) ==
    IF units = <<>> THEN <<>>
    ELSE LET u == Head(units)
             tags == KeywordTags(u)
         IN  [i \in 1..Len(tags) |->
                 [k |-> tags[i].k, text |-> Slice(u.string, tags[i].start, tags[i].end)]]
             \o Occurrences(Tail(units))
\* "a", then another keyword, then "A": two entries, the third span gets the first index
C8_Witness ==
    /\ IsOk /\ Len(keywords) = 2
    /\ LET occ == Occurrences(Units(Document))
       IN  /\ Len(occ) = 3
           /\ occ[1].k = 0 /\ occ[2].k = 1 /\ occ[3].k = 0
           /\ occ[1].text # occ[3].text

(***************************************************************************)
(* C9: the empty string is never a member of the vocabulary.               *)
(***************************************************************************)
C9_NoEmptyKeyword == \A i \in 1..Len(keywords) : Len(keywords[i]) > 0

(***************************************************************************)
(* C10: the units of a parsed document carry the indices 0, 1, ..., n-1 in *)
(* document order and n is the counter; a unit returned by parse_inline    *)
(* has the last index given; a call of parse_inline that saw no text       *)
(* returns no unit and leaves the counter unchanged.                       *)
(***************************************************************************)
C10_UnitIndices ==
    /\ [](IsOk =>
            /\ Len(Units(Document)) = inline_element_count
            /\ \A i \in 1..Len(Units(Document)) : Units(Document)[i].index = i - 1)
    /\ [](UnitReturned => ReturnedUnit.index + 1 = inline_element_count)
    /\ [][(At("parse_inline") /\ Top.string = None /\ ret' # None) =>
            /\ Get(ret').v = None
            /\ inline_element_count' = inline_element_count]_vars
\* a section with title 0, a paragraph of units 1 and 2 around a break that is
\* followed by a call without text, and a sub-section
C10_Witness ==
    /\ IsOk /\ Len(Units(Document)) >= 3
    /\ Len(Document.sub_sections) = 1
    /\ Document.sub_sections[1].content.blocks # <<>>
    /\ Document.sub_sections[1].content.sub_sections # <<>>

(***************************************************************************)
(* C11: while parse_inline has no pending start of a kind, an end event of *)
(* that kind is never consumed as a closing tag: the step that meets it    *)
(* ends the run with the error "Multiline ... not supported" carrying the  *)
(* offset of that end event and no document; and parse_inline aborts only  *)
(* on an event of a kind whose start is pending.                           *)
(***************************************************************************)
EndRefused(end_event, msg) ==
    /\ stream' # Append(stream, end_event)
    /\ (~Running' /\ Get(result').ev = Some(end_event)) =>
           result' = ErrorOf(msg, Some([e |-> end_event, o |-> Len(stream)]), 0, 0)
C11_UnmatchedEndIsError ==
    [][At("parse_inline") =>
        /\ Top.emphasis_start = None =>
               EndRefused(EndEmphasis, "Multiline emphasis not supported")
        /\ Top.strong_start = None =>
               EndRefused(EndStrong, "Multiline strong not supported")
        /\ IsPanic' =>
            \/ /\ IsSome(Top.emphasis_start)
               /\ Get(result').msg \in {"assertion failed: emphasis_start == None",
                                        "Empty emphasis block"}
            \/ /\ IsSome(Top.strong_start)
               /\ Get(result').msg \in {"assertion failed: strong_start == None",
                                        "Empty strong block"}]_vars
\* a strong span opened in the first unit of a paragraph and closed in the second
C11_Witness ==
    /\ IsErr /\ Get(result).msg = "Multiline strong not supported"
    /\ Get(result).ev = Some(EndStrong) /\ Get(result).o = 5

(***************************************************************************)
(* The units of a stream as parse_inline cuts them: a unit ends at the     *)
(* first event that is neither text nor an emphasis or strong tag.         *)
(* UnitEndsOpen(s) holds when some unit of s ended while an emphasis start *)
(* or a strong start consumed in it was still open.                        *)
(***************************************************************************)
RECURSIVE OpenAtUnitEnd(_, _, _, _)
OpenAtUnitEnd(s, i, emphasis, strong) ==
    IF i > Len(s) THEN FALSE
    ELSE IF s[i].k = "Text" THEN OpenAtUnitEnd(s, i + 1, emphasis, strong)
    ELSE IF s[i].k = "StartEmphasis" THEN OpenAtUnitEnd(s, i + 1, TRUE, strong)
    ELSE IF s[i].k = "EndEmphasis" THEN OpenAtUnitEnd(s, i + 1, FALSE, strong)
    ELSE IF s[i].k = "StartStrong" THEN OpenAtUnitEnd(s, i + 1, emphasis, TRUE)
    ELSE IF s[i].k = "EndStrong" THEN OpenAtUnitEnd(s, i + 1, emphasis, FALSE)
    ELSE emphasis \/ strong \/ OpenAtUnitEnd(s, i + 1, FALSE, FALSE)
UnitEndsOpen(s) == OpenAtUnitEnd(s, 1, FALSE, FALSE)

(***************************************************************************)
(* C12: once a unit has ended with an emphasis or strong start still open, *)
(* the run can only end with an error: never with a document, never with   *)
(* an abort.                                                               *)
(***************************************************************************)
C12_UnmatchedStartIsError ==
    [][(Running /\ UnitEndsOpen(stream) /\ ~Running') => IsErr']_vars

(***************************************************************************)
(* The list items of a tree, nested ones included.                         *)
(***************************************************************************)
RECURSIVE ItemsOf(_)
ItemsOf(items) ==
    IF items = <<>> THEN <<>>
    ELSE <<Head(items)>>
         \o (IF IsSome(Head(items).sub_list)
             THEN ItemsOf(Get(Head(items).sub_list).items) ELSE <<>>)
         \o ItemsOf(Tail(items))
RECURSIVE BlocksItems(_)
BlocksItems(blocks) ==
    IF blocks = <<>> THEN <<>>
    ELSE (IF Head(blocks).b = "List" THEN ItemsOf(Get(Head(blocks).list).items) ELSE <<>>)
         \o BlocksItems(Tail(blocks))
RECURSIVE SectionsItems(_)
SectionsItems(sections) ==
    IF sections = <<>> THEN <<>>
    ELSE BlocksItems(Head(sections).content.blocks)
         \o SectionsItems(Head(sections).content.sub_sections)
         \o SectionsItems(Tail(sections))
Items(doc) == BlocksItems(doc.blocks) \o SectionsItems(doc.sub_sections)

(***************************************************************************)
(* C13: when the inline sequence of a list item comes back empty with its  *)
(* terminating event (whatever it is), the next step ends the run with the *)
(* error "List item with empty text" carrying the offset of that event;    *)
(* no item of a finished tree has an empty text content.                   *)
(***************************************************************************)
EmptyItemPending ==
    /\ Returned("parse_list_item", "parse_inline_sequence")
    /\ Get(ret).v = <<>> /\ IsSome(Get(ret).next)
C13_EmptyItemIsError ==
    /\ [][EmptyItemPending =>
            /\ stream[Get(Get(ret).next).o + 1] = Get(Get(ret).next).e
            /\ result' = ErrorOf("List item with empty text", Get(ret).next, 0, 0)]_vars
    /\ [](IsOk => \A i \in 1..Len(Items(Document)) : Items(Document)[i].text_content # <<>>)
\* an item that holds a nested list and no text was refused at the nested list start
C13_Witness ==
    /\ IsErr /\ Get(result).msg = "List item with empty text"
    /\ Get(result).ev = Some(StartList(0)) /\ Get(result).o = 2

(***************************************************************************)
(* C14 (as claimed): when the inline sequence of a paragraph comes back    *)
(* empty with the paragraph end, the run ends with a user-facing error, a  *)
(* message and an offset; it does not abort.                               *)
(***************************************************************************)
EmptyParagraphPending ==
    /\ Returned("parse_paragraph", "parse_inline_sequence")
    /\ Get(ret).v = <<>> /\ Kind(Get(ret).next) = "EndParagraph"
C14_EmptyParagraphIsError == [][EmptyParagraphPending => IsErr']_vars

(***************************************************************************)
(* C14 (amended): an empty paragraph is an abort: the assertion            *)
(* inline_sequence.len() > 0 fails, and parse returns neither an error nor *)
(* a document; no paragraph of a finished tree is without unit.            *)
(***************************************************************************)
RECURSIVE BlocksOf(_)
BlocksOf(sections) ==
    IF sections = <<>> THEN <<>>
    ELSE Head(sections).content.blocks
         \o BlocksOf(Head(sections).content.sub_sections)
         \o BlocksOf(Tail(sections))
Blocks(doc) == doc.blocks \o BlocksOf(doc.sub_sections)
C14_EmptyParagraphAborts ==
    /\ [][EmptyParagraphPending =>
            /\ IsPanic'
            /\ Get(result').msg = "assertion failed: inline_sequence.len() > 0"]_vars
    /\ [](IsOk => \A i \in 1..Len(Blocks(Document)) :
                      Blocks(Document)[i].b = "Paragraph" => Blocks(Document)[i].inlines # <<>>)
\* the run was aborted by the assertion of parse_paragraph
C14_Witness ==
    IsPanic /\ Get(result).msg = "assertion failed: inline_sequence.len() > 0"

(***************************************************************************)
(* C15: the report of parse() is "At line ", the decimal of 1 + the number *)
(* of newline bytes among the first `offset` bytes of the text, ": " and   *)
(* the message of the error, unchanged.  line_number_of_offset is 0 for    *)
(* offset 0 and counts every newline for an offset at or past the end.     *)
(***************************************************************************)
NewlinesBefore(bytes, offset) ==
    Cardinality({i \in 1..Len(bytes) : i <= offset /\ bytes[i] = "\n"})
RECURSIVE DecimalValue(_)
DecimalValue(digits) ==
    IF digits = <<>> THEN 0
    ELSE 10 * DecimalValue(SubSeq(digits, 1, Len(digits) - 1))
         + (CHOOSE d \in 0..9 : Digits[d + 1] = digits[Len(digits)])
C15_LineOfOffset ==
    /\ line_number_of_offset(text, 0) = 0
    /\ \A o \in Len(text)..(MaxTextLen + 1) :
           line_number_of_offset(text, o) = NewlinesBefore(text, Len(text))
    /\ report # None =>
           LET r == Get(report)
           IN  /\ Len(r) >= 4
               /\ r[1] = "At line "
               /\ DecimalValue(SubSeq(r, 2, Len(r) - 2))
                      = NewlinesBefore(text, Get(result).o) + 1
               /\ r[Len(r) - 1] = ": "
               /\ r[Len(r)] = Get(result).msg
\* an error inside the second line of a text of three lines
C15_Witness ==
    /\ report # None /\ Len(text) = 3
    /\ text[1] = "\n" /\ text[3] = "\n" /\ Get(result).o = 2
    /\ Get(report) = <<"At line ", "2", ": ", Get(result).msg>>

(***************************************************************************)
(* C16: the stream of the end-to-end scenario parses to a root without     *)
(* block and with one section "Title", which holds one paragraph and one   *)
(* sub-section "Sub" holding one paragraph; the vocabulary is ["world"];   *)
(* the unit of the first paragraph is "Hello world." with ExplicitKeyword  *)
(* (0) on "world"; the unit of the second is "Bold world." with Highlight  *)
(* on "Bold" and no keyword tag.                                           *)
(***************************************************************************)
ScenarioTree(doc) ==
    /\ doc.blocks = <<>> /\ Len(doc.sub_sections) = 1
    /\ LET title == doc.sub_sections[1]
       IN  /\ title.title.string = <<"T", "i", "t", "l", "e">>
           /\ title.title.tags = <<>>
           /\ Len(title.content.blocks) = 1 /\ Len(title.content.sub_sections) = 1
           /\ title.content.blocks[1].b = "Paragraph"
           /\ Len(title.content.blocks[1].inlines) = 1
           /\ LET unit == title.content.blocks[1].inlines[1]
              IN  /\ unit.string = <<"H", "e", "l", "l", "o", " ", "w", "o", "r", "l", "d", ".">>
                  /\ unit.tags = <<Tagged(6, 11, "ExplicitKeyword", 0)>>
           /\ LET sub == title.content.sub_sections[1]
              IN  /\ sub.title.string = <<"S", "u", "b">>
                  /\ sub.title.tags = <<>>
                  /\ Len(sub.content.blocks) = 1 /\ sub.content.sub_sections = <<>>
                  /\ sub.content.blocks[1].b = "Paragraph"
                  /\ Len(sub.content.blocks[1].inlines) = 1
                  /\ LET unit == sub.content.blocks[1].inlines[1]
                     IN  /\ unit.string
                               = <<"B", "o", "l", "d", " ", "w", "o", "r", "l", "d", ".">>
                         /\ unit.tags = <<Tagged(0, 4, "Highlight", 0)>>
C16_Scenario ==
    (input = ScenarioProfile /\ ~Running) =>
        /\ IsOk
        /\ stream = ScenarioScript
        /\ ScenarioTree(Document)
        /\ keywords = <<(<<"w", "o", "r", "l", "d">>)>>
\* the scenario was parsed to its end
C16_Witness == input = ScenarioProfile /\ IsOk /\ ended

(***************************************************************************)
(* C17: keyword_search_regex returns None exactly when the vocabulary is   *)
(* empty or holds the empty string, and a regex for every other one.       *)
(***************************************************************************)
C17_NoMatcher ==
    regex # <<>> =>
        (Get(regex) = None <=> (keywords = <<>> \/ \E i \in 1..Len(keywords) : keywords[i] = <<>>))
\* no matcher for a vocabulary whose first entry is empty and whose second is not
C17_Witness ==
    /\ regex # <<>> /\ Get(regex) = None
    /\ Len(keywords) = 2 /\ keywords[1] = <<>> /\ keywords[2] # <<>>

(***************************************************************************)
(* C18: a reported match is the longest occurrence of a vocabulary entry   *)
(* that stands word-bounded (ignoring case) at its start, whatever the     *)
(* insertion order of the vocabulary; {"cat", "catalog"} on "catalog"      *)
(* gives one match, the whole word.                                        *)
(***************************************************************************)
\* keyword k occurs in hay at offset start, ignoring case, between two boundaries
OccursBounded(k, hay, start) ==
    /\ k # <<>> /\ start + Len(k) <= Len(hay)
    /\ ToLower(SubSeq(hay, start + 1, start + Len(k))) = ToLower(k)
    /\ WordBoundary(hay, start) /\ WordBoundary(hay, start + Len(k))
SearchDone == regex # <<>> /\ IsSome(Get(regex)) /\ last_end = None
C18_LongestMatch ==
    /\ \A i \in 1..Len(matches) :
           /\ \E k \in 1..Len(keywords) :
                  /\ OccursBounded(keywords[k], haystack, matches[i].start)
                  /\ Len(keywords[k]) = matches[i].end - matches[i].start
           /\ \A k \in 1..Len(keywords) :
                  OccursBounded(keywords[k], haystack, matches[i].start) =>
                      Len(keywords[k]) <= matches[i].end - matches[i].start
    /\ (SearchDone /\ keywords \in {<<Cat, Catalog>>, <<Catalog, Cat>>} /\ haystack = Catalog) =>
           matches = <<[start |-> 0, end |-> 7]>>

(***************************************************************************)
(* C19: a reported match is an occurrence of a vocabulary entry, ignoring  *)
(* case, that neither starts nor ends in the middle of a word; once the    *)
(* search is done every occurrence of an entry made of word characters     *)
(* that stands as a word of its own, in whatever case, overlaps a reported *)
(* match; {"cat"} on "concatenate" gives no match.                         *)
(***************************************************************************)
InsideWord(hay, p) == WordAt(hay, p) /\ WordAt(hay, p + 1)
StandsAlone(k, hay, start) ==
    /\ k # <<>> /\ \A i \in 1..Len(k) : IsWord(k[i])
    /\ start + Len(k) <= Len(hay)
    /\ ToLower(SubSeq(hay, start + 1, start + Len(k))) = ToLower(k)
    /\ ~WordAt(hay, start) /\ ~WordAt(hay, start + Len(k) + 1)
C19_WordBounded ==
    /\ \A i \in 1..Len(matches) :
           /\ ~InsideWord(haystack, matches[i].start)
           /\ ~InsideWord(haystack, matches[i].end)
           /\ \E k \in 1..Len(keywords) :
                  ToLower(keywords[k])
                      = ToLower(SubSeq(haystack, matches[i].start + 1, matches[i].end))
    /\ SearchDone =>
           \A k \in 1..Len(keywords), start \in 0..Len(haystack) :
               StandsAlone(keywords[k], haystack, start) =>
                   \E i \in 1..Len(matches) :
                       /\ matches[i].start < start + Len(keywords[k])
                       /\ start < matches[i].end
    /\ (SearchDone /\ keywords = <<Cat>> /\ haystack = Concatenate) => matches = <<>>
\* the search of "concatenate" for "cat" is done
C19_Witness == SearchDone /\ keywords = <<Cat>> /\ haystack = Concatenate

(***************************************************************************)
(* C20: once IndexedDocument::from has run on the tree and the vocabulary  *)
(* of a successful parse, it has returned an indexed document in which     *)
(* every ExplicitKeyword(k) tag of a unit has the unit's index in the      *)
(* explicit occurrences of keyword k, every hit of the regex in a unit's   *)
(* string that overlaps no ExplicitKeyword range of the unit has an        *)
(* ImplicitKeyword(k) tag and the unit's index in the implicit occurrences *)
(* of keyword k, and a hit that coincides with an ExplicitKeyword range    *)
(* has no ImplicitKeyword tag.                                             *)
(***************************************************************************)
\* regex.find_iter(hay): the successive non-overlapping matches from offset from
RECURSIVE find_iter(_, _, _)
find_iter(re, hay, from) ==
    LET m == find_at(re, hay, from)
    IN  IF m = None THEN <<>> ELSE <<Get(m)>> \o find_iter(re, hay, Get(m).end)
\* from has returned an IndexedDocument whose list `lists` of keyword k holds index
Recorded(lists, k, index) ==
    /\ Get(indexed).kind = "Ok"
    /\ k < Len(Get(indexed)[lists])
    /\ \E n \in 1..Len(Get(indexed)[lists][k + 1]) : Get(indexed)[lists][k + 1][n] = index
\* from has returned an IndexedDocument whose i-th unit has the tag g
TaggedByIndexer(i, g) ==
    /\ Get(indexed).kind = "Ok"
    /\ \E n \in 1..Len(Units(Get(indexed).root)[i].tags) : Units(Get(indexed).root)[i].tags[n] = g
HitRecorded(i, u, hit) ==
    IF \A j \in 1..Len(u.tags) :
           u.tags[j].tag = "ExplicitKeyword" => ~Overlap(u.tags[j], hit)
    THEN \E k \in 1..Len(keywords) :
             /\ ToLower(keywords[k]) = ToLower(Slice(u.string, hit.start, hit.end))
             /\ TaggedByIndexer(i, Tagged(hit.start, hit.end, "ImplicitKeyword", k - 1))
             /\ Recorded("implicit_keyword_occurrences", k - 1, u.index)
    ELSE \A j \in 1..Len(u.tags) :
             (/\ u.tags[j].tag = "ExplicitKeyword"
              /\ u.tags[j].start = hit.start /\ u.tags[j].end = hit.end) =>
                 \A k \in 1..Len(keywords) :
                     ~TaggedByIndexer(i, Tagged(hit.start, hit.end, "ImplicitKeyword", k - 1))
C20_IndexerRecords ==
    indexed # None =>
        \A i \in 1..Len(Units(Document)) :
            LET u == Units(Document)[i]
            IN  /\ \A j \in 1..Len(u.tags) :
                       u.tags[j].tag = "ExplicitKeyword" =>
                           Recorded("explicit_keyword_occurrences", u.tags[j].k, u.index)
                /\ \E p \in SortedByLength(keywords) :
                       LET re == keyword_search_regex(Reordered(keywords, p))
                       IN  IsSome(re) =>
                               \A h \in 1..Len(find_iter(Get(re), u.string, 0)) :
                                   HitRecorded(i, u, find_iter(Get(re), u.string, 0)[h])

(***************************************************************************)
(* C21: when IndexedDocument::from has run with an empty vocabulary (for   *)
(* which keyword_search_regex returns None) it has returned an indexed     *)
(* document, not panicked, and that document has no implicit occurrence.   *)
(***************************************************************************)
NoMatcher ==
    \A p \in SortedByLength(keywords) : keyword_search_regex(Reordered(keywords, p)) = None
C21_EmptyVocabularyIndexed ==
    (indexed # None /\ keywords = <<>> /\ NoMatcher) =>
        /\ Get(indexed).kind = "Ok"
        /\ \A k \in 1..Len(Get(indexed).implicit_keyword_occurrences) :
               Get(indexed).implicit_keyword_occurrences[k] = <<>>

(***************************************************************************)
(* C22: a header start followed at once by its header end (parse_inline    *)
(* comes back to parse_section_of_level with no title and the header end   *)
(* as the next event) ends the run with a panic, not with an error value.  *)
(***************************************************************************)
UntitledHeaderPending ==
    /\ Returned("parse_section_of_level", "parse_inline")
    /\ Get(ret).v = None
    /\ Kind(Get(ret).next) = "EndHeader"
    /\ Kind(Some([e |-> stream[Len(stream) - 1], o |-> 0])) = "StartHeader"
C22_UntitledHeaderAborts ==
    [][UntitledHeaderPending => IsPanic' /\ ~IsErr']_vars

(***************************************************************************)
(* C23: when a stream that keeps the tokenizer's nesting ends inside an    *)
(* open header title, paragraph, rule, list or list item, the run ends     *)
(* with a panic: a document is returned only for a stream with none of     *)
(* them open; once the end of the stream has been met with one of them     *)
(* open the run goes on, with nothing more consumed, or panics; and an     *)
(* error raised while one of them is open is raised on the event consumed  *)
(* last, never on the end of the stream.                                   *)
(***************************************************************************)
UnclosedKinds == {"StartHeader", "StartParagraph", "StartRule", "StartList", "StartItem"}
Unclosed(s) ==
    LET open == OpenTags(s) IN {open[i] : i \in 1..Len(open)} \cap UnclosedKinds
EndedUnclosed == Running /\ input.nested /\ ended /\ Unclosed(stream) # {}
RECURSIVE ListEvents(_), ItemsEvents(_)
ListEvents(list) ==
    <<StartList(IF list.ordered THEN 1 ELSE 0)>> \o ItemsEvents(list.items) \o <<EndList(0)>>
ItemsEvents(items) ==
    IF items = <<>> THEN <<>>
    ELSE <<StartItem>>
         \o (IF IsSome(Head(items).sub_list) THEN ListEvents(Get(Head(items).sub_list)) ELSE <<>>)
         \o <<EndItem>>
         \o ItemsEvents(Tail(items))
RECURSIVE BlocksListEvents(_)
BlocksListEvents(blocks) ==
    IF blocks = <<>> THEN <<>>
    ELSE (IF Head(blocks).b = "List" THEN ListEvents(Get(Head(blocks).list)) ELSE <<>>)
         \o BlocksListEvents(Tail(blocks))
\* the list and item events of the stream, a list end without its start index
StreamListEvents ==
    LET marks == SelectSeq(stream, LAMBDA e :
                     e.k \in {"StartList", "EndList", "StartItem", "EndItem"})
    IN  [i \in 1..Len(marks) |-> IF marks[i].k = "EndList" THEN EndList(0) ELSE marks[i]]
AfterSubList == Returned("parse_list_item", "parse_list")
C24_ListsMirrorStream ==
    /\ [](IsOk => BlocksListEvents(Blocks(Document)) = StreamListEvents)
    /\ [][AfterSubList =>
              \/ /\ Running' /\ stream' = Append(stream, EndItem)
                 /\ Get(ret').from = "parse_list_item"
                 /\ Get(ret').v.sub_list = Some(Get(ret).v)
              \/ /\ IsErr' /\ Get(result').msg = "Expected list item end"
                 /\ Get(result').ev # None /\ Get(Get(result').ev).k # "EndItem"
                 /\ Get(result').o = Len(stream)
              \/ IsPanic' /\ Get(result').msg = "Unclosed list item"]_vars
\* an ordered list whose item holds an unordered list
C24_Witness ==
    /\ IsOk
    /\ \E i \in 1..Len(Document.blocks) :
           /\ Document.blocks[i].b = "List"
           /\ Get(Document.blocks[i].list).ordered
           /\ \E j \in 1..Len(Get(Document.blocks[i].list).items) :
                  LET item == Get(Document.blocks[i].list).items[j]
                  IN  /\ IsSome(item.sub_list)
                      /\ ~Get(item.sub_list).ordered
                      /\ Get(item.sub_list).items # <<>>

(***************************************************************************)
(* C25: parsing terminates on every finite stream.  The cursor only moves  *)
(* forward, by one event, and not after the end of the stream; every step  *)
(* of the run either consumes from the cursor (an event, or the end of the *)
(* stream once) or unwinds towards the next consume(), so that a measure   *)
(* made of what is left of the stream and of the distance to the next      *)
(* consume() decreases at every step; a run that has no outcome yet can    *)
(* take a step; and the outcome, once there, is a document, an error or a  *)
(* panic and does not change.                                              *)
(***************************************************************************)
\* what consume() can still yield: the events left, and the end of the stream
Remaining == (input.max - Len(stream)) + (IF ended THEN 0 ELSE 1)
\* the steps to the next consume(): the returns to unwind, the loop test of
\* parse_section_content_at_level; a frame is pushed for an event consumed
Unwinding ==
    IF ret # None THEN 2 * Len(stack) + 3
    ELSE IF stack # <<>> /\ Top.fn = "parse_section_content_at_level" /\ Top.pc = "sections"
    THEN 2 * Len(stack) + 2
    ELSE 0
Measure == Remaining * (6 * input.max + 10) + Unwinding
\* the run is where a step is defined: before a consume(), which always has
\* something to yield, at the loop test, or with a value returned to its caller
Callers ==
    {<<"parse_inline_sequence", "parse_inline">>, <<"parse_paragraph", "parse_inline_sequence">>,
     <<"parse_list", "parse_list_item">>, <<"parse_list_item", "parse_inline_sequence">>,
     <<"parse_list_item", "parse_list">>, <<"try_parse_block", "parse_paragraph">>,
     <<"try_parse_block", "parse_list">>,
     <<"parse_section_content_at_level", "try_parse_block">>,
     <<"parse_section_content_at_level", "parse_section_of_level">>,
     <<"parse_section_of_level", "parse_inline">>,
     <<"parse_section_of_level", "parse_section_content_at_level">>,
     <<"parse_document", "parse_section_content_at_level">>}
CanStep ==
    /\ stack # <<>>
    /\ Consumable # {}
    /\ IF ret # None THEN <<Top.fn, Get(ret).from>> \in Callers
       ELSE \/ Top.fn \in {"parse_inline", "parse_list"}
            \/ Top.fn = "try_parse_block" /\ Top.pc \in {"start", "rule"}
            \/ Top.fn = "parse_section_content_at_level" /\ Top.pc = "sections"
C25_Terminates ==
    /\ [](Running => (Measure >= 0 /\ Unwinding < 6 * input.max + 10 /\ CanStep))
    /\ [][(Running /\ Running') => Measure' < Measure]_vars
    /\ [][(Running /\ Running') =>
              /\ ended => (ended' /\ stream' = stream)
              /\ \/ stream' = stream
                 \/ /\ Len(stream') = Len(stream) + 1
                    /\ SubSeq(stream', 1, Len(stream)) = stream
                    /\ ended' = ended]_vars
    /\ [](result # None => Get(result).kind \in {"Ok", "Err", "Panic"})
    /\ [][result # None => result' = result]_vars
\* a run over sections, a list and a paragraph that has ended with a document
C25_Witness ==
    /\ IsOk /\ ended
    /\ Document.sub_sections # <<>>
    /\ \E i, j \in 1..Len(Blocks(Document)) :
           Blocks(Document)[i].b = "List" /\ Blocks(Document)[j].b = "Paragraph"

(***************************************************************************)
(* C26: once the search is done with the regex of a vocabulary, a text     *)
(* that is a non-empty entry k of the vocabulary, alone or between two     *)
(* spaces, has given exactly one match, which covers k, whatever the       *)
(* characters k begins and ends with.                                      *)
(***************************************************************************)
Spaced(k) == <<" ">> \o k \o <<" ">>
C26_FoundAlone ==
    SearchDone =>
        \A i \in 1..Len(keywords) :
            keywords[i] # <<>> =>
                /\ haystack = keywords[i] =>
                       matches = <<[start |-> 0, end |-> Len(keywords[i])]>>
                /\ haystack = Spaced(keywords[i]) =>
                       matches = <<[start |-> 1, end |-> Len(keywords[i]) + 1]>>

====
